---- MODULE Spec2Model ----
(***************************************************************************)
(* Model of torcheeg.model_selection: train_test_split_cross_trial         *)
(* (split_cross_trial.py) and Subcategory (subcategory.py).                *)
(*                                                                         *)
(* Text (file names, CSV cells) is a sequence of character codes, so that  *)
(* str(), int() and the CSV round trip are computed, not assumed.          *)
(***************************************************************************)
EXTENDS Integers, Sequences, FiniteSets, TLC

(* ---------------------------------------------------------------- bounds *)
MaxRows == 3

(* ------------------------------------------------------- generic helpers *)
Range(f) == {f[x] : x \in DOMAIN f}

SeqsUpTo(S, n) == UNION {[1..k -> S] : k \in 1..n}

Perms(n) == {p \in [1..n -> 1..n] : \A i, j \in 1..n : p[i] = p[j] => i = j}

RECURSIVE Concat(_)
Concat(ss) == IF ss = <<>> THEN <<>> ELSE Head(ss) \o Concat(Tail(ss))

(* lexicographic order on texts (Python str comparison) *)
RECURSIVE TextLess(_, _)
TextLess(a, b) ==
    IF b = <<>> THEN FALSE
    ELSE IF a = <<>> THEN TRUE
    ELSE IF Head(a) # Head(b) THEN Head(a) < Head(b)
    ELSE TextLess(Tail(a), Tail(b))

(* the sequence listing the set S in increasing order of key[x] *)
RECURSIVE SortByKey(_, _)
SortByKey(S, key) ==
    IF S = {} THEN <<>>
    ELSE LET m == CHOOSE x \in S : \A y \in S : key[x] <= key[y]
         IN <<m>> \o SortByKey(S \ {m}, key)

(* ------------------------------------------------------ str() and int() *)
Digits == 48..57
Minus == <<45>>
DotCsv == <<46, 99, 115, 118>>

RECURSIVE FormatNat(_)
FormatNat(n) ==
    IF n < 10 THEN <<48 + n>> ELSE FormatNat(n \div 10) \o <<48 + (n % 10)>>

(* str(n) of a Python int *)
FormatInt(n) == IF n < 0 THEN Minus \o FormatNat(0 - n) ELSE FormatNat(n)

RECURSIVE DigitsValue(_)
DigitsValue(t) ==
    IF t = <<>> THEN 0
    ELSE 10 * DigitsValue(SubSeq(t, 1, Len(t) - 1)) + (t[Len(t)] - 48)

IsDigits(t) == t # <<>> /\ \A i \in 1..Len(t) : t[i] \in Digits

(* int(text): an optional sign and decimal digits, leading zeros allowed; *)
(* anything else raises ValueError (ok = FALSE)                            *)
ParseInt(t) ==
    IF IsDigits(t) THEN [ok |-> TRUE, v |-> DigitsValue(t)]
    ELSE IF t # <<>> /\ Head(t) = 45 /\ IsDigits(Tail(t))
         THEN [ok |-> TRUE, v |-> 0 - DigitsValue(Tail(t))]
    ELSE [ok |-> FALSE, v |-> 0]

(* ------------------------------------------------- metadata cell values *)
IntV(n) == [t |-> "int", i |-> n, s |-> <<>>]
StrV(x) == [t |-> "str", i |-> 0, s |-> x]

(* str(value), as to_csv and the f-string of the file name produce it *)
ToStr(v) == IF v.t = "int" THEN FormatInt(v.i) ELSE v.s

(* ------------------------------------------------------------ CSV files *)
Columns == {"clip_id", "subject_id", "trial_id", "task"}

TrainCsv == <<116, 114, 97, 105, 110>> \o DotCsv
TestCsv == <<116, 101, 115, 116>> \o DotCsv

(* DataFrame.to_csv(index=False): one line of cell texts per row *)
ToCsv(tbl) ==
    [k \in 1..Len(tbl) |->
        [clip_id    |-> FormatInt(tbl[k].clip_id),
         subject_id |-> FormatInt(tbl[k].subject_id),
         trial_id   |-> FormatInt(tbl[k].trial_id),
         task       |-> ToStr(tbl[k].task)]]

(* pd.read_csv: a column whose cells all read as integers becomes an     *)
(* integer column, any other column stays text                            *)
ReadCsv(lines) ==
    LET taskIsInt == \A k \in 1..Len(lines) : ParseInt(lines[k].task).ok
    IN [k \in 1..Len(lines) |->
          [clip_id    |-> ParseInt(lines[k].clip_id).v,
           subject_id |-> ParseInt(lines[k].subject_id).v,
           trial_id   |-> ParseInt(lines[k].trial_id).v,
           task       |-> IF taskIsInt THEN IntV(ParseInt(lines[k].task).v)
                          ELSE StrV(lines[k].task)]]

(* info[info[col] == value]: the matching rows, in table order *)
RECURSIVE RowsWhere(_, _, _)
RowsWhere(tbl, col, value) ==
    IF tbl = <<>> THEN <<>>
    ELSE LET r == RowsWhere(SubSeq(tbl, 1, Len(tbl) - 1), col, value)
             x == tbl[Len(tbl)]
         IN IF x[col] = value THEN Append(r, x) ELSE r

(* list(set(column)) for a column of small Python ints: CPython walks the *)
(* hash table by slot, hash(n) = n for n >= 0 and hash(-1) = -2, so the    *)
(* non-negative values come in increasing order and -1 after them         *)
HashSlot(n) == IF n >= 0 THEN n ELSE 1000 + n

ListOfSet(S) == SortByKey(S, [n \in S |-> HashSlot(n)])

(* ------------------------------------- sklearn.model_selection splitting *)
(* test_size: a fraction num/den (kind "f") or an absolute count (kind "i") *)
Fraction(n, d) == [kind |-> "f", num |-> n, den |-> d]
Count(n) == [kind |-> "i", num |-> n, den |-> 1]

Ceil(num, den) == (num + den - 1) \div den

Iota(a, b) == [k \in 1..(b - a + 1) |-> a + k - 1]

(* model_selection.train_test_split(arr, test_size, shuffle, random_state): *)
(* n_test = ceil(test_size * n) for a fraction, test_size for a count;     *)
(* n_train = n - n_test; ValueError when the count is out of range or the  *)
(* train part would be empty; without shuffle the head is train and the    *)
(* tail is test, with shuffle a permutation is cut the same way (its first *)
(* n_test entries are test). The set of the results the call can produce.  *)
TrainTestSplit(arr, test_size, shuffle) ==
    LET n == Len(arr)
        n_test == IF test_size.kind = "f"
                  THEN Ceil(test_size.num * n, test_size.den)
                  ELSE test_size.num
        n_train == n - n_test
        pick(idx) == [k \in 1..Len(idx) |-> arr[idx[k]]]
    IN IF test_size.kind = "i" /\ (n_test >= n \/ n_test <= 0)
       THEN {[err |-> "ValueError", train |-> <<>>, test |-> <<>>]}
       ELSE IF n_train <= 0
       THEN {[err |-> "ValueError", train |-> <<>>, test |-> <<>>]}
       ELSE IF ~shuffle
       THEN {[err |-> "none",
              train |-> pick(Iota(1, n_train)),
              test |-> pick(Iota(n_train + 1, n))]}
       ELSE {[err |-> "none",
              train |-> pick(SubSeq(p, n_test + 1, n)),
              test |-> pick(SubSeq(p, 1, n_test))] : p \in Perms(n)}

(* np.array(arr)[idx]: each index must lie in -n..n-1, a negative index    *)
(* counts from the end; otherwise IndexError                               *)
NpTake(arr, idx) ==
    LET n == Len(arr)
    IN IF \E k \in 1..Len(idx) : idx[k] >= n \/ idx[k] < 0 - n
       THEN [ok |-> FALSE, v |-> <<>>]
       ELSE [ok |-> TRUE,
             v |-> [k \in 1..Len(idx) |->
                      arr[(IF idx[k] < 0 THEN idx[k] + n ELSE idx[k]) + 1]]]

(* the rows of the trials ids[1], ids[2], ... of one subject, concatenated *)
TrialRows(subject_info, ids) ==
    Concat([k \in 1..Len(ids) |-> RowsWhere(subject_info, "trial_id", ids[k])])

ColumnSet(tbl, col) == {tbl[k][col] : k \in 1..Len(tbl)}

ErrOutcome(e) == [err |-> e, train |-> <<>>, test |-> <<>>, groups |-> <<>>]

(* one pass of the loop body for a subject (lines 80-110): the outcomes it *)
(* can have, an error or the subject's train and test rows                 *)
SubjectOutcomes(info_, subject, test_size, shuffle) ==
    LET subject_info == RowsWhere(info_, "subject_id", subject)
        trial_ids == ListOfSet(ColumnSet(subject_info, "trial_id"))
        one(r) ==
            IF r.err # "none" THEN ErrOutcome(r.err)
            ELSE IF Len(r.train) = 0 \/ Len(r.test) = 0
            THEN ErrOutcome("ValueError")
            ELSE LET tr == NpTake(trial_ids, r.train)
                     te == NpTake(trial_ids, r.test)
                 IN IF ~tr.ok \/ ~te.ok THEN ErrOutcome("IndexError")
                    ELSE [err |-> "none",
                          train |-> TrialRows(subject_info, tr.v),
                          test |-> TrialRows(subject_info, te.v),
                          groups |-> <<[subject |-> subject,
                                        trial_ids |-> trial_ids,
                                        train |-> tr.v,
                                        test |-> te.v]>>]
    IN {one(r) : r \in TrainTestSplit(trial_ids, test_size, shuffle)}

(* the loop over the subjects (lines 79-120): it stops at the first error, *)
(* otherwise the subjects' train and test rows are concatenated in order   *)
RECURSIVE SplitOutcomes(_, _, _, _)
SplitOutcomes(info_, subjects, test_size, shuffle) ==
    IF subjects = <<>>
    THEN {[err |-> "none", train |-> <<>>, test |-> <<>>, groups |-> <<>>]}
    ELSE UNION {
           IF o.err # "none" THEN {ErrOutcome(o.err)}
           ELSE {IF rest.err # "none" THEN ErrOutcome(rest.err)
                 ELSE [err |-> "none",
                       train |-> o.train \o rest.train,
                       test |-> o.test \o rest.test,
                       groups |-> o.groups \o rest.groups]
                 : rest \in SplitOutcomes(info_, Tail(subjects),
                                           test_size, shuffle)}
           : o \in SubjectOutcomes(info_, Head(subjects), test_size, shuffle)}

(* --------------------------------------------------- Subcategory helpers *)
(* indice_file_to_fold_id: the regular expression keeps what precedes the  *)
(* last "<any character>csv" of the file name, then int() is applied       *)
IndiceFileToFoldId(name) ==
    IF Len(name) >= 4 /\ SubSeq(name, Len(name) - 2, Len(name)) = Tail(DotCsv)
    THEN ParseInt(SubSeq(name, 1, Len(name) - 4))
    ELSE [ok |-> FALSE, v |-> 0]

(* the category_list property: listdir, int of every file stem (ValueError *)
(* when one is not an integer), set, sort                                  *)
CategoryList(fs) ==
    LET names == DOMAIN fs
    IN IF \E nm \in names : ~IndiceFileToFoldId(nm).ok
       THEN [ok |-> FALSE, v |-> <<>>]
       ELSE LET ids == {IndiceFileToFoldId(nm).v : nm \in names}
            IN [ok |-> TRUE, v |-> SortByKey(ids, [c \in ids |-> c])]

CategoryFile(category) == ToStr(category) \o DotCsv

(* split_info_constructor after its assert: one file per distinct value of *)
(* the criteria column, holding the rows with that value                   *)
SplitInfoFiles(info_, crit) ==
    LET category_list == ColumnSet(info_, crit)
        names == {CategoryFile(c) : c \in category_list}
    IN [nm \in names |->
          ToCsv(RowsWhere(info_, crit,
                          CHOOSE c \in category_list : CategoryFile(c) = nm))]

(* ------------------------------------------------------ dataset metadata *)
Subjects == {0, 1}
Trials == {-1, 0, 1, 2}

Rest == <<114, 101, 115, 116>>
Motor == <<109, 111, 116, 111, 114>>
IntTasks == {IntV(0), IntV(1), IntV(2), IntV(10)}
StrTasks == {StrV(Rest), StrV(Motor), StrV(<<49>>), StrV(<<48, 49>>)}

(* a metadata table whose k-th row is sample k of trial st[k][2] of        *)
(* subject st[k][1], with task value tasks[k]                              *)
MkInfo(st, tasks) ==
    [k \in 1..Len(st) |->
        [clip_id |-> k, subject_id |-> st[k][1], trial_id |-> st[k][2],
         task |-> tasks[k]]]

TrialInfo(st) == MkInfo(st, [k \in 1..Len(st) |-> IntV(0)])
TaskInfo(tasks) == MkInfo([k \in 1..Len(tasks) |-> <<0, 0>>], tasks)

(* subject 0 with trials 1..5 and subject 1 with trials 10..14 *)
ScenarioInfo ==
    TrialInfo([k \in 1..10 |-> IF k <= 5 THEN <<0, k>> ELSE <<1, k + 4>>])

(* recordings are stored subject after subject and trial after trial, so *)
(* the rows of a subject, and of a trial, are contiguous                   *)
Recorded(st) ==
    \A k \in 1..(Len(st) - 1) :
        \/ st[k][1] < st[k + 1][1]
        \/ st[k][1] = st[k + 1][1] /\ st[k][2] <= st[k + 1][2]

TrialDatasets ==
    {TrialInfo(st) :
        st \in {x \in SeqsUpTo(Subjects \X Trials, MaxRows) : Recorded(x)}}
        \cup {ScenarioInfo}

TaskDatasets ==
    {TaskInfo(ts) : ts \in SeqsUpTo(IntTasks, MaxRows)
                             \cup SeqsUpTo(StrTasks, MaxRows)}

(* the metadata of a dataset that was generated again *)
RegeneratedTrial ==
    {TrialInfo(<<<<0, 0>>, <<0, 1>>>>),
     TrialInfo(<<<<0, 0>>, <<0, 0>>, <<0, 1>>, <<1, 0>>, <<1, 1>>>>)}

RegeneratedTask ==
    {TaskInfo(<<IntV(0), IntV(1)>>), TaskInfo(<<IntV(1), IntV(2), IntV(1)>>)}

TestSizes == {Fraction(1, 5), Fraction(1, 2), Count(1)}

Criterias == {"task", "label"}

(* ------------------------------------------------------------------ state *)
VARIABLES
    component,  \* which splitter the caller uses: "trial" or "sub"
    info,       \* dataset.info of the caller's dataset
    criteria,   \* Subcategory.criteria
    exists,     \* os.path.exists(split_path)
    files,      \* the files of the split_path directory: name -> CSV lines
    call,       \* the last split call: arguments, branch, outcome, views
    prev,       \* the call before it
    cats        \* category_list of the running Subcategory.split generator

vars == <<component, info, criteria, exists, files, call, prev, cats>>

NoFiles == [nm \in {} |-> <<>>]

NoCall ==
    [op |-> "none", state |-> "none", branch |-> "none", info |-> <<>>,
     test_size |-> Count(0), shuffle |-> FALSE, views |-> <<>>,
     groups |-> <<>>]

Summary(c) ==
    [op |-> c.op, state |-> c.state, branch |-> c.branch, info |-> c.info,
     views |-> c.views]

(* a gate that never finds the directory, so that every call computes *)
PathExistsNever(e) == FALSE

(* os.path.exists(split_path), lines 67 and 130 *)
PathExists(e) == e

(* lines 133-134: the tables of the views are read back from the directory *)
LoadTables(fs) == <<ReadCsv(fs[TrainCsv]), ReadCsv(fs[TestCsv])>>

Init ==
    /\ component \in {"trial", "sub"}
    /\ IF component = "trial"
       THEN info \in TrialDatasets /\ criteria = "task"
       ELSE info \in TaskDatasets /\ criteria \in Criterias
    /\ exists = FALSE
    /\ files = NoFiles
    /\ call = NoCall
    /\ prev = Summary(NoCall)
    /\ cats = <<>>

(* train_test_split_cross_trial(dataset, test_size, shuffle, random_state,  *)
(* split_path) with an explicit split_path                                  *)
TrainTestSplitCrossTrial(test_size, shuffle) ==
    LET c0 == [op |-> "trial", state |-> "none", branch |-> "none",
               info |-> info, test_size |-> test_size, shuffle |-> shuffle,
               views |-> <<>>, groups |-> <<>>]
    IN
    /\ component = "trial"
    /\ prev' = Summary(call)
    /\ UNCHANGED <<component, info, criteria, cats>>
    /\ IF ~PathExists(exists)
       THEN \E o \in SplitOutcomes(info,
                        ListOfSet(ColumnSet(info, "subject_id")),
                        test_size, shuffle) :
              /\ exists' = TRUE
              /\ IF o.err # "none"
                 THEN /\ files' = NoFiles
                      /\ call' = [c0 EXCEPT !.state = o.err,
                                            !.branch = "compute"]
                 ELSE /\ files' = (TrainCsv :> ToCsv(o.train))
                                     @@ (TestCsv :> ToCsv(o.test))
                      /\ call' = [c0 EXCEPT
                            !.state = "returned",
                            !.branch = "compute",
                            !.groups = o.groups,
                            !.views = LoadTables(files')]
       ELSE /\ UNCHANGED <<exists, files>>
            /\ IF {TrainCsv, TestCsv} \subseteq DOMAIN files
               THEN call' = [c0 EXCEPT
                        !.state = "returned",
                        !.branch = "reuse",
                        !.views = LoadTables(files)]
               ELSE call' = [c0 EXCEPT !.state = "FileNotFoundError",
                                       !.branch = "reuse"]

(* cv.split(dataset): creates the generator, its body has not run yet *)
SubcategorySplit ==
    /\ component = "sub"
    /\ prev' = Summary(call)
    /\ call' = [NoCall EXCEPT !.op = "sub", !.state = "created",
                              !.info = info]
    /\ cats' = <<>>
    /\ UNCHANGED <<component, info, criteria, exists, files>>

(* a loop that takes the rows of the next category from the dataset it was *)
(* given instead of reading the category's file                            *)
YieldNextFromDataset(c, category_list, fs) ==
    LET k == Len(c.views) + 1
    IN IF k > Len(category_list) THEN [c EXCEPT !.state = "exhausted"]
       ELSE [c EXCEPT !.state = "suspended",
                      !.views = Append(c.views,
                          RowsWhere(c.info, "task", IntV(category_list[k])))]

(* lines 149-156: the loop reads the file of the next category and yields  *)
(* a view with that table, or ends                                         *)
YieldNext(c, category_list, fs) ==
    LET k == Len(c.views) + 1
    IN IF k > Len(category_list) THEN [c EXCEPT !.state = "exhausted"]
       ELSE LET nm == CategoryFile(IntV(category_list[k]))
            IN IF nm \notin DOMAIN fs
               THEN [c EXCEPT !.state = "FileNotFoundError"]
               ELSE [c EXCEPT !.state = "suspended",
                              !.views = Append(c.views, ReadCsv(fs[nm]))]

(* next(generator), first time: the persistence gate (lines 130-145), the  *)
(* category list (line 147) and the loop up to its first yield             *)
GeneratorStart ==
    /\ component = "sub"
    /\ call.state = "created"
    /\ UNCHANGED <<component, info, criteria, prev>>
    /\ IF ~PathExists(exists) /\ criteria \notin Columns
       THEN /\ exists' = TRUE
            /\ files' = NoFiles
            /\ cats' = <<>>
            /\ call' = [call EXCEPT !.state = "AssertionError",
                                    !.branch = "compute"]
       ELSE /\ exists' = TRUE
            /\ files' = IF ~PathExists(exists)
                        THEN SplitInfoFiles(call.info, criteria)
                        ELSE files
            /\ LET c1 == [call EXCEPT !.branch = IF ~PathExists(exists)
                                                 THEN "compute"
                                                 ELSE "reuse"]
                   cl == CategoryList(files')
               IN IF ~cl.ok
                  THEN /\ cats' = <<>>
                       /\ call' = [c1 EXCEPT !.state = "ValueError"]
                  ELSE /\ cats' = cl.v
                       /\ call' = YieldNext(c1, cl.v, files')

(* next(generator) after a yield: the loop goes on *)
GeneratorNext ==
    /\ component = "sub"
    /\ call.state = "suspended"
    /\ call' = YieldNext(call, cats, files)
    /\ UNCHANGED <<component, info, criteria, exists, files, prev, cats>>

(* the caller's dataset is generated again with other metadata *)
Regenerate ==
    /\ info' \in (IF component = "trial" THEN RegeneratedTrial
                  ELSE RegeneratedTask) \ {info}
    /\ UNCHANGED <<component, criteria, exists, files, call, prev, cats>>

Next ==
    \/ \E ts \in TestSizes, sh \in BOOLEAN : TrainTestSplitCrossTrial(ts, sh)
    \/ SubcategorySplit
    \/ GeneratorStart
    \/ GeneratorNext
    \/ Regenerate

Spec == Init /\ [][Next]_vars

(* ------------------------------------------------------------ properties *)
Running == {"none", "created", "suspended"}

ClipSet(tbl) == ColumnSet(tbl, "clip_id")

TrialCompute == call.op = "trial" /\ call.branch = "compute"
SubCompute == call.op = "sub" /\ call.branch = "compute"

(* Python round(num / den): to the nearest integer, a half to the even one *)
Round(num, den) ==
    LET q == num \div den
        r == num % den
    IN IF 2 * r < den THEN q
       ELSE IF 2 * r > den THEN q + 1
       ELSE IF q % 2 = 0 THEN q ELSE q + 1

(* the size of the test group the code's split gives n trials *)
NTest(test_size, n) ==
    IF test_size.kind = "f" THEN Ceil(test_size.num * n, test_size.den)
    ELSE test_size.num

TrialCount(info_, s) ==
    Cardinality(ColumnSet(RowsWhere(info_, "subject_id", s), "trial_id"))

(* C1: a call on an absent split_path that returns gives train and test    *)
(* tables that share no row, repeat no row and together hold exactly the   *)
(* rows of the dataset.                                                    *)
C1_Coverage ==
    (TrialCompute /\ call.state = "returned") =>
        LET tr == call.views[1]
            te == call.views[2]
        IN /\ ClipSet(tr) \cap ClipSet(te) = {}
           /\ ClipSet(tr) \cup ClipSet(te) = ClipSet(call.info)
           /\ Len(tr) + Len(te) = Len(call.info)

(* C2: after a partition is computed, the rows of every (subject, trial)   *)
(* are all in the train table or all in the test table, never in both and  *)
(* never partly missing.                                                   *)
C2_TrialAtomicity ==
    (TrialCompute /\ call.state = "returned") =>
        \A k \in 1..Len(call.info) :
            LET rows == {j \in 1..Len(call.info) :
                            /\ call.info[j].subject_id = call.info[k].subject_id
                            /\ call.info[j].trial_id = call.info[k].trial_id}
                clips == {call.info[j].clip_id : j \in rows}
                tr == ClipSet(call.views[1])
                te == ClipSet(call.views[2])
            IN \/ clips \subseteq tr /\ clips \cap te = {}
               \/ clips \subseteq te /\ clips \cap tr = {}

(* C3: with shuffle=False the test group of a subject with n trials is the *)
(* last round(test_size * n) trial ids of its enumeration and the train    *)
(* group is the head before them; the scenario with subjects of trials     *)
(* 1..5 and 10..14 at test_size 0.2 gives [1,2,3,4] / [5] and              *)
(* [10,11,12,13] / [14].                                                   *)
C3_TailIsTest ==
    LET ts == call.test_size
        want(n) == IF ts.kind = "f" THEN Round(ts.num * n, ts.den) ELSE ts.num
        proper == \A s \in ColumnSet(call.info, "subject_id") :
                     LET n == TrialCount(call.info, s)
                     IN 0 < want(n) /\ want(n) < n
    IN (TrialCompute /\ ~call.shuffle /\ call.state \notin Running) =>
         /\ proper =>
              /\ call.state = "returned"
              /\ \A k \in 1..Len(call.groups) :
                    LET g == call.groups[k]
                        n == Len(g.trial_ids)
                    IN /\ g.train = SubSeq(g.trial_ids, 1, n - want(n))
                       /\ g.test = SubSeq(g.trial_ids, n - want(n) + 1, n)
         /\ (call.info = ScenarioInfo /\ ts = Fraction(1, 5)) =>
              /\ call.state = "returned"
              /\ call.groups =
                   <<[subject |-> 0, trial_ids |-> <<1, 2, 3, 4, 5>>,
                      train |-> <<1, 2, 3, 4>>, test |-> <<5>>],
                     [subject |-> 1, trial_ids |-> <<10, 11, 12, 13, 14>>,
                      train |-> <<10, 11, 12, 13>>, test |-> <<14>>]>>

(* C4: when a split call computed and persisted a partition and the next   *)
(* call gets the same path and the same dataset, the next call takes the   *)
(* reuse branch and its views carry the same tables as the first call's.   *)
C4_IdempotentReuse ==
    (/\ prev.branch = "compute"
     /\ prev.state \in {"returned", "exhausted"}
     /\ call.op = prev.op
     /\ call.info = prev.info
     /\ call.state \notin Running) =>
        /\ call.branch = "reuse"
        /\ call.state = prev.state
        /\ call.views = prev.views

C4_Witness ==
    /\ prev.op = "trial" /\ prev.branch = "compute" /\ prev.state = "returned"
    /\ call.op = "trial" /\ call.info = prev.info /\ call.shuffle
    /\ call.state = "returned" /\ call.branch = "reuse"
    /\ Len(call.views[1]) > 1

(* C5: a split call that finds the directory leaves the directory and its *)
(* files as they are, takes the reuse branch, and the views it gives carry *)
(* the tables of the files, whatever dataset it was given.                 *)
C5_ReuseFrame ==
    [][(exists /\ call' # call) =>
          /\ exists' /\ files' = files
          /\ call'.op = "trial" =>
                /\ call'.branch = "reuse"
                /\ call'.state = "returned" =>
                      call'.views = <<ReadCsv(files[TrainCsv]),
                                     ReadCsv(files[TestCsv])>>
          /\ (call'.op = "sub" /\ call'.state # "created") =>
                /\ call.state = "created" => call'.branch = "reuse"
                /\ \A k \in 1..Len(call'.views) :
                      call'.views[k] =
                          ReadCsv(files[FormatInt(cats'[k]) \o DotCsv])]_vars

C5_Witness ==
    /\ call.op = "sub" /\ call.branch = "reuse" /\ call.state = "exhausted"
    /\ Len(call.views) = 2
    /\ ColumnSet(call.info, "task") # {call.views[k][1].task : k \in 1..2}

(* C6: the directory exists only with a complete partition in it, train.csv *)
(* and test.csv, also after a call that failed while computing.            *)
C6_NoDirectoryWithoutPartition ==
    (component = "trial" /\ exists) => {TrainCsv, TestCsv} \subseteq DOMAIN files

(* C7: a Subcategory.split on an absent path whose criteria is not a       *)
(* column fails without creating the directory or any file.                *)
C7_AssertBeforeIO ==
    (SubCompute /\ call.state = "AssertionError") =>
        ~exists /\ files = NoFiles

(* C8: after a fully iterated Subcategory.split on an absent path with a   *)
(* valid criteria, there is one view per distinct criteria value, every    *)
(* row of the dataset is in exactly one view, and the rows of a view are   *)
(* the rows of one criteria value.                                         *)
C8_CategoryPartition ==
    (SubCompute /\ criteria \in Columns /\ call.state = "exhausted") =>
        LET values == ColumnSet(call.info, criteria)
            n == Len(call.views)
        IN /\ n = Cardinality(values)
           /\ \A r \in 1..Len(call.info) :
                 Cardinality({k \in 1..n :
                     call.info[r].clip_id \in ClipSet(call.views[k])}) = 1
           /\ \A k \in 1..n :
                 \E v \in values :
                     /\ Len(call.views[k]) =
                            Len(RowsWhere(call.info, criteria, v))
                     /\ ClipSet(call.views[k]) =
                            ClipSet(RowsWhere(call.info, criteria, v))

(* the values of S from the least to the greatest, numbers by value and    *)
(* texts alphabetically                                                    *)
ValueLess(a, b) == IF a.t = "int" THEN a.i < b.i ELSE TextLess(a.s, b.s)

RECURSIVE Ascending(_)
Ascending(S) ==
    IF S = {} THEN <<>>
    ELSE LET m == CHOOSE x \in S : \A y \in S \ {x} : ValueLess(x, y)
         IN <<m>> \o Ascending(S \ {m})

(* C9: Subcategory.split on an absent path with a valid criteria yields    *)
(* one view per distinct criteria value in ascending order of the value,   *)
(* for text values as for numbers: tasks 'rest' and 'motor' give the files *)
(* motor.csv and rest.csv and the views [motor, rest].                     *)
C9_AscendingCategories ==
    (SubCompute /\ criteria \in Columns /\ call.state \notin Running) =>
        LET order == Ascending(ColumnSet(call.info, criteria))
        IN /\ call.state = "exhausted"
           /\ DOMAIN files = {CategoryFile(v) : v \in Range(order)}
           /\ Len(call.views) = Len(order)
           /\ \A k \in 1..Len(order) :
                 ClipSet(call.views[k]) =
                     ClipSet(RowsWhere(call.info, criteria, order[k]))

(* C10: a call on an absent path raises ValueError whenever the split of   *)
(* some subject's trials has an empty train or test group, and a returned  *)
(* partition has a train trial and a test trial for every subject.         *)
C10_DegenerateRejected ==
    LET degenerate ==
            \E s \in ColumnSet(call.info, "subject_id") :
                LET n == TrialCount(call.info, s)
                    k == NTest(call.test_size, n)
                IN k <= 0 \/ n - k <= 0
    IN (TrialCompute /\ call.state \notin Running) =>
         /\ degenerate => call.state = "ValueError"
         /\ call.state = "returned" =>
               \A s \in ColumnSet(call.info, "subject_id") :
                   /\ s \in ColumnSet(call.views[1], "subject_id")
                   /\ s \in ColumnSet(call.views[2], "subject_id")

====
